---- MODULE Spec2Model ----
(***************************************************************************)
(* A model of restful.py: a command-line REST client that issues one GET   *)
(* or POST request and prints the JSON response or saves it to a .json or  *)
(* .csv file.  One run of the script is one behaviour: main parses the     *)
(* command line and builds the RestClient, send_request issues the         *)
(* request, handle_response classifies the response, save_response and     *)
(* save_json / save_csv write the destination file.                        *)
(***************************************************************************)
EXTENDS Integers, Sequences, FiniteSets, TLC

VARIABLES
    argv,       \* the command line: method, endpoint, -d, -o (each optional)
    self,       \* the RestClient's fields (set by __init__)
    pc,         \* the function the run is in
    exitCode,   \* the process's exit status, -1 while it runs
    err,        \* the kind of the error that ended the run, "none" otherwise
    stdout,     \* the lines printed so far
    stderr,     \* the lines argparse wrote to standard error
    netCalls,   \* the requests issued with requests.get / requests.post
    response,   \* the response received, <<>> before there is one
    decoded,    \* response.json(), <<>> before it is decoded
    file,       \* the destination file named by -o
    file0,      \* the destination file as the run found it
    writable,   \* whether the file system lets the destination be opened
    opens,      \* how many times the destination was opened for writing
    path        \* the functions the run has been in, in order

vars == <<argv, self, pc, exitCode, err, stdout, stderr, netCalls, response,
          decoded, file, file0, writable, opens, path>>

----------------------------------------------------------------------------
(* Bounds of the model.                                                    *)

\* the longest -d text, in tokens
MaxPayloadLen == 2
\* the longest list a response body holds
MaxRows == 2

----------------------------------------------------------------------------
(* Optional values: None is <<>>, a given value v is <<v>>.                *)

None == <<>>

Some(v) == <<v>>

\* Python's truth value of an optional text: None and the empty text are false
Truthy(opt) == opt # None /\ opt[1] # <<>>

RECURSIVE Join(_)
\* the string a sequence of characters spells
Join(chars) == IF chars = <<>> THEN "" ELSE Head(chars) \o Join(Tail(chars))

----------------------------------------------------------------------------
(* JSON values.  Every value is a record of one shape: t its type, s the   *)
(* text of a scalar, items the members of a list or an object in order,    *)
(* each with its key k (empty for a list).                                 *)

Num(txt) == [t |-> "num", s |-> txt, items |-> <<>>]

Str(txt) == [t |-> "str", s |-> txt, items |-> <<>>]

Null == [t |-> "null", s |-> "", items |-> <<>>]

Bool(txt) == [t |-> "bool", s |-> txt, items |-> <<>>]

Item(key, val) == [k |-> key, val |-> val]

List(vals) == [t |-> "list", s |-> "",
               items |-> [i \in 1..Len(vals) |-> Item("", vals[i])]]

Obj(pairs) == [t |-> "obj", s |-> "", items |-> pairs]

\* a response body that is not JSON text
NotJson == [t |-> "notjson", s |-> "", items |-> <<>>]

IsScalar(v) == v.t \in {"num", "str", "null", "bool"}

\* list(d.keys()): the keys of an object in their order
Keys(v) == [i \in 1..Len(v.items) |-> v.items[i].k]

KeySet(v) == {v.items[i].k : i \in 1..Len(v.items)}

\* d[key]
Get(v, key) == v.items[CHOOSE i \in 1..Len(v.items) : v.items[i].k = key].val

----------------------------------------------------------------------------
(* str.lower, on the letters a method token is written with.               *)

LowerChar(c) ==
    CASE c = "G" -> "g" [] c = "E" -> "e" [] c = "T" -> "t"
      [] c = "P" -> "p" [] c = "O" -> "o" [] c = "S" -> "s"
      [] c = "U" -> "u" [] OTHER -> c

Lower(chars) == [i \in 1..Len(chars) |-> LowerChar(chars[i])]

----------------------------------------------------------------------------
(* os.path.splitext: the extension starts at the last dot of the last path *)
(* component, leading dots of that component not counted.                  *)

\* str.rfind, 1-based, 0 when c does not occur
RFind(p, c) ==
    IF \E i \in 1..Len(p) : p[i] = c
    THEN CHOOSE i \in 1..Len(p) : p[i] = c /\ \A j \in (i+1)..Len(p) : p[j] # c
    ELSE 0

splitext(p) ==
    LET sepIndex == RFind(p, "/")
        dotIndex == RFind(p, ".")
    IN  IF /\ dotIndex > sepIndex
           /\ \E i \in (sepIndex+1)..(dotIndex-1) : p[i] # "."
        THEN SubSeq(p, dotIndex, Len(p))
        ELSE <<>>

----------------------------------------------------------------------------
(* json.loads of the -d text, token by token, for the texts made of a      *)
(* number, brackets and commas.  A text that is not one JSON value raises  *)
(* json.JSONDecodeError, a ValueError: None here.                          *)

ParseFail == [ok |-> FALSE, val |-> Null, rest |-> <<>>]

RECURSIVE ParseValue(_)
RECURSIVE ParseElems(_, _)
ParseValue(toks) ==
    IF toks = <<>> THEN ParseFail
    ELSE IF Head(toks) = "1"
    THEN [ok |-> TRUE, val |-> Num("1"), rest |-> Tail(toks)]
    ELSE IF Head(toks) = "["
    THEN IF Len(toks) >= 2 /\ toks[2] = "]"
         THEN [ok |-> TRUE, val |-> List(<<>>), rest |-> SubSeq(toks, 3, Len(toks))]
         ELSE ParseElems(Tail(toks), <<>>)
    ELSE ParseFail

ParseElems(toks, acc) ==
    LET r == ParseValue(toks)
    IN  IF ~r.ok \/ r.rest = <<>> THEN ParseFail
        ELSE IF Head(r.rest) = "]"
        THEN [ok |-> TRUE, val |-> List(Append(acc, r.val)), rest |-> Tail(r.rest)]
        ELSE IF Head(r.rest) = ","
        THEN ParseElems(Tail(r.rest), Append(acc, r.val))
        ELSE ParseFail

json_loads(toks) ==
    LET r == ParseValue(toks)
    IN  IF r.ok /\ r.rest = <<>> THEN Some(r.val) ELSE None

----------------------------------------------------------------------------
(* json.dumps(value, indent=n), as the lines of its text.                  *)

RECURSIVE Spaces(_)
Spaces(n) == IF n = 0 THEN "" ELSE " " \o Spaces(n - 1)

Quote(txt) == "\"" \o txt \o "\""

ScalarText(v) ==
    CASE v.t = "num" -> v.s
      [] v.t = "str" -> Quote(v.s)
      [] v.t = "bool" -> v.s
      [] OTHER -> "null"

RECURSIVE Flatten(_)
Flatten(seqs) == IF seqs = <<>> THEN <<>> ELSE Head(seqs) \o Flatten(Tail(seqs))

RECURSIVE DumpLines(_, _, _, _, _)
\* The lines of v at nesting depth `depth`; `before` (the indentation and
\* the key the caller places v after) starts the first line, `after` (the
\* comma that separates v from the next item) ends the last.
DumpLines(v, depth, indent, before, after) ==
    IF IsScalar(v) THEN <<before \o ScalarText(v) \o after>>
    ELSE IF v.items = <<>>
    THEN <<before \o (IF v.t = "list" THEN "[]" ELSE "{}") \o after>>
    ELSE <<before \o (IF v.t = "list" THEN "[" ELSE "{")>>
             \o Flatten([i \in 1..Len(v.items) |->
                    DumpLines(v.items[i].val, depth + 1, indent,
                              Spaces(indent * (depth + 1))
                                  \o (IF v.t = "obj"
                                      THEN Quote(v.items[i].k) \o ": " ELSE ""),
                              IF i < Len(v.items) THEN "," ELSE "")])
             \o <<Spaces(indent * depth)
                      \o (IF v.t = "list" THEN "]" ELSE "}") \o after>>

json_dumps(v, indent) == DumpLines(v, 0, indent, "", "")

----------------------------------------------------------------------------
(* csv.DictWriter.  The file is modelled as its rows, each the sequence of *)
(* its fields' texts.                                                      *)

RECURSIVE PyRepr(_)
\* repr(value), which str() of a list or a dict is made of
PyRepr(v) ==
    CASE v.t = "num" -> v.s
      [] v.t = "str" -> "'" \o v.s \o "'"
      [] v.t = "bool" -> (IF v.s = "true" THEN "True" ELSE "False")
      [] v.t = "null" -> "None"
      [] OTHER ->
           LET n == Len(v.items)
               Part(i) == (IF v.t = "obj" THEN "'" \o v.items[i].k \o "': " ELSE "")
                              \o PyRepr(v.items[i].val)
                              \o (IF i < n THEN ", " ELSE "")
               F[i \in 0..n] == IF i = 0 THEN "" ELSE F[i - 1] \o Part(i)
           IN  (IF v.t = "list" THEN "[" ELSE "{") \o F[n]
                   \o (IF v.t = "list" THEN "]" ELSE "}")

\* the text the csv writer gives a field: None is the empty text, a string
\* is itself, anything else is str(value)
CsvField(v) ==
    CASE v.t = "null" -> ""
      [] v.t = "str" -> v.s
      [] OTHER -> PyRepr(v)

\* the default restval of DictWriter, written for a key the row lacks
restval == ""

Range(seq) == {seq[i] : i \in 1..Len(seq)}

\* DictWriter._dict_to_list raises for a row that is no mapping
\* (AttributeError) or that has a key outside fieldnames (ValueError)
RowRaises(row, fieldnames) ==
    row.t # "obj" \/ ~(KeySet(row) \subseteq Range(fieldnames))

\* dict_to_list writing the row's values in the row's own key order
dict_to_list_row_order(row, fieldnames) ==
    [i \in 1..Len(fieldnames) |->
        IF i <= Len(row.items) THEN CsvField(row.items[i].val) ELSE restval]

dict_to_list(row, fieldnames) ==
    [i \in 1..Len(fieldnames) |->
        IF fieldnames[i] \in KeySet(row)
        THEN CsvField(Get(row, fieldnames[i]))
        ELSE restval]

\* isinstance(data, list) or [data]
AsList(v) ==
    IF v.t = "list" THEN [i \in 1..Len(v.items) |-> v.items[i].val] ELSE <<v>>

\* What lines 95-97 write to the opened file and whether they raise: the
\* header, then the rows up to the first that raises.
DictWriterRun(data) ==
    IF data = <<>> \/ data[1].t # "obj"
    THEN [raised |-> TRUE, rows |-> <<>>]
    ELSE LET fieldnames == Keys(data[1])
             bad == {i \in 1..Len(data) : RowRaises(data[i], fieldnames)}
             stop == IF bad = {} THEN Len(data) + 1
                     ELSE CHOOSE i \in bad : \A j \in bad : i <= j
         IN  [raised |-> bad # {},
              rows |-> <<fieldnames>>
                          \o [i \in 1..(stop - 1) |-> dict_to_list(data[i], fieldnames)]]

----------------------------------------------------------------------------
(* The inputs of a run: the command line, the response of the remote API   *)
(* and the destination file.                                               *)

MethodTokens ==
    {<<"g", "e", "t">>, <<"p", "o", "s", "t">>, <<"G", "E", "T">>,
     <<"P", "o", "s", "t">>, <<"p", "u", "t">>}

Endpoints == {"/posts/1"}

PayloadTokens == {"[", "]", "1"}

\* the -d texts: every token sequence up to MaxPayloadLen, the empty one too
Payloads == UNION {[1..n -> PayloadTokens] : n \in 0..MaxPayloadLen}

\* the -o paths: "", o.json, o.csv, r.txt, out, .csv, a.csv/o
Paths ==
    {<<>>,
     <<"o", ".", "j", "s", "o", "n">>,
     <<"o", ".", "c", "s", "v">>,
     <<"r", ".", "t", "x", "t">>,
     <<"o", "u", "t">>,
     <<".", "c", "s", "v">>,
     <<"a", ".", "c", "s", "v", "/", "o">>}

Opt(S) == {None} \cup {Some(x) : x \in S}

\* A missing method leaves no endpoint either: both are positional.  A GET
\* never reads its -d text (line 29-30), so two texts stand for all of them.
CommandLines ==
    {a \in [method : Opt(MethodTokens), endpoint : Opt(Endpoints),
            data : Opt(Payloads), output : Opt(Paths)] :
        /\ a.method = None => a.endpoint = None
        /\ a.method = Some(<<"g", "e", "t">>) => a.data \in {None, Some(<<"1">>)}}

StatusCodes == {200, 304, 404, 503}

RecA == Obj(<<Item("id", Num("1")), Item("title", Str("a"))>>)

\* the keys of RecA in another order, one value null
RecB == Obj(<<Item("title", Null), Item("id", Num("2"))>>)

\* a key of RecA missing
RecShort == Obj(<<Item("id", Num("3"))>>)

\* a key RecA lacks
RecExtra == Obj(<<Item("id", Num("4")), Item("title", Bool("true")),
                  Item("tags", List(<<Num("1"), Str("x")>>))>>)

Elements == {RecA, RecB, RecShort, RecExtra, Num("7")}

\* the decodable response bodies: a scalar, an object, the lists of up to
\* MaxRows elements
JsonBodies ==
    {Num("5"), RecA}
        \cup {List(l) : l \in UNION {[1..n -> Elements] : n \in 0..MaxRows}}

Bodies == JsonBodies \cup {NotJson}

AbsentFile == [exists |-> FALSE, lines |-> <<>>, rows |-> <<>>]

\* a destination that exists before the run
OldFile == [exists |-> TRUE, lines |-> <<"old">>, rows |-> <<>>]

Init ==
    /\ argv \in CommandLines
    /\ file0 \in {AbsentFile, OldFile}
    /\ writable \in BOOLEAN
    \* without a destination there is no file to tell apart
    /\ ~Truthy(argv.output) => file0 = AbsentFile /\ writable
    /\ file = file0
    /\ self = [method |-> <<>>, endpoint |-> "", data |-> None, output |-> None]
    /\ pc = "main"
    /\ exitCode = -1
    /\ err = "none"
    /\ stdout = <<>>
    /\ stderr = <<>>
    /\ netCalls = <<>>
    /\ response = None
    /\ decoded = None
    /\ opens = 0
    /\ path = <<"main">>

----------------------------------------------------------------------------
(* The run.                                                                *)

BASE_URL == "https://jsonplaceholder.typicode.com"

\* the choices argparse accepts for the method
choices == {<<"g", "e", "t">>, <<"p", "o", "s", "t">>}

\* ExitStatus with save_json / save_csv reporting the error and returning
\* (the sys.exit(1) of their except clause left out)
ExitStatusWriteErrorReturns(kind) ==
    CASE kind \in {"none", "FileWriteError"} -> 0
      [] kind = "UsageError" -> 2
      [] OTHER -> 1

\* The exit status of a run by the error that ended it: sys.exit(1) in every
\* handler of the script, 2 from argparse's own error(), 0 when main returns.
ExitStatus(kind) ==
    CASE kind = "none" -> 0
      [] kind = "UsageError" -> 2
      [] OTHER -> 1

\* the run ends: what it prints last, and its exit status
Terminate(kind, lines) ==
    /\ pc' = "exited"
    /\ err' = kind
    /\ exitCode' = ExitStatus(kind)
    /\ stdout' = stdout \o lines

\* main: parse_args, then RestClient(...); argparse ends the run itself on a
\* missing positional or a method outside the choices
Main ==
    /\ pc = "main"
    /\ IF \/ argv.method = None
          \/ argv.endpoint = None
          \/ argv.method[1] \notin choices
       THEN /\ Terminate("UsageError", <<>>)
            /\ stderr' = <<"usage: restful.py [-h] [-d DATA] [-o OUTPUT] {get,post} endpoint",
                           "restful.py: error">>
            /\ UNCHANGED self
       ELSE /\ self' = [method |-> Lower(argv.method[1]),
                        endpoint |-> argv.endpoint[1],
                        data |-> argv.data,
                        output |-> argv.output]
            /\ pc' = "send_request"
            /\ UNCHANGED <<exitCode, err, stdout, stderr>>
    /\ path' = Append(path, pc')
    /\ UNCHANGED <<argv, netCalls, response, decoded, file, file0, writable, opens>>

\* OnRequestException trying the request once more before giving up
OnRequestExceptionRetry(msg) ==
    IF Len(netCalls) < 1
    THEN /\ pc' = "send_request"
         /\ UNCHANGED <<exitCode, err, stdout, response>>
    ELSE /\ pc' = "exited"
         /\ err' = "NetworkError"
         /\ exitCode' = 1
         /\ stdout' = stdout \o <<"Network error: " \o msg>>
         /\ UNCHANGED <<response>>

\* the except clause for requests.RequestException
OnRequestException(msg) ==
    /\ Terminate("NetworkError", <<"Network error: " \o msg>>)
    /\ UNCHANGED <<response>>

\* the except clause for ValueError
OnValueError(msg) ==
    /\ Terminate("InvalidInputError", <<"Invalid input: " \o msg>>)
    /\ UNCHANGED <<response>>

\* PostPayload without the check that data is given: a POST with no body
PostPayloadUnchecked(data) ==
    IF ~Truthy(data)
    THEN [raises |-> FALSE, msg |-> "", json |-> Null]
    ELSE IF json_loads(data[1]) = None
    THEN [raises |-> TRUE, msg |-> "JSONDecodeError", json |-> Null]
    ELSE [raises |-> FALSE, msg |-> "", json |-> json_loads(data[1])[1]]

\* PostPayload sending the text as it is when it does not parse
PostPayloadUnparsed(data) ==
    IF ~Truthy(data)
    THEN [raises |-> TRUE, msg |-> "For POST requests, data is required.", json |-> Null]
    ELSE IF json_loads(data[1]) = None
    THEN [raises |-> FALSE, msg |-> "", json |-> Str(Join(data[1]))]
    ELSE [raises |-> FALSE, msg |-> "", json |-> json_loads(data[1])[1]]

\* The body of a POST: data must be given and be JSON text, or the request
\* is not made and ValueError is raised.
PostPayload(data) ==
    IF ~Truthy(data)
    THEN [raises |-> TRUE, msg |-> "For POST requests, data is required.", json |-> Null]
    ELSE IF json_loads(data[1]) = None
    THEN [raises |-> TRUE, msg |-> "JSONDecodeError", json |-> Null]
    ELSE [raises |-> FALSE, msg |-> "", json |-> json_loads(data[1])[1]]

\* requests.get / requests.post: the call is made, and either fails in
\* transport or returns a response
Request(verb, url, json) ==
    /\ netCalls' = Append(netCalls, [verb |-> verb, url |-> url, json |-> json])
    /\ \/ OnRequestException("ConnectionError")
       \/ \E status \in StatusCodes, body \in Bodies :
              /\ response' = Some([status_code |-> status, body |-> body])
              /\ pc' = "handle_response"
              /\ UNCHANGED <<exitCode, err, stdout>>

\* send_request, up to the response
SendRequest ==
    /\ pc = "send_request"
    /\ IF self.method = <<"g", "e", "t">>
       THEN Request("GET", BASE_URL \o self.endpoint, Null)
       ELSE IF self.method = <<"p", "o", "s", "t">>
       THEN LET payload == PostPayload(self.data)
            IN  IF payload.raises
                THEN OnValueError(payload.msg) /\ UNCHANGED netCalls
                ELSE Request("POST", BASE_URL \o self.endpoint, payload.json)
       ELSE OnValueError("Unsupported HTTP method") /\ UNCHANGED netCalls
    /\ path' = Append(path, pc')
    /\ UNCHANGED <<argv, self, stderr, decoded, file, file0, writable, opens>>

\* ok failing for client errors only
ok_client_errors_only(status) == ~(400 <= status /\ status < 500)

\* Response.ok: raise_for_status raises for 400-599 only
ok(status) == ~(400 <= status /\ status < 600)

StatusLine(status) == "HTTP Status Code: " \o ToString(status)

\* print_body with json.dumps' indent of 2
print_body_indent2(v) == json_dumps(v, 2)

\* print(json.dumps(response.json(), indent=4))
print_body(v) == json_dumps(v, 4)

\* response.json() of a body that is not JSON raises requests' JSONDecodeError
\* inside send_request's try: a RequestException in requests 2.27 and later,
\* a plain ValueError before; the installed version decides the handler
OnUndecodable(lines) ==
    /\ \E kind \in {"NetworkError", "InvalidInputError"} :
           Terminate(kind, lines \o <<(IF kind = "NetworkError"
                                       THEN "Network error: "
                                       ELSE "Invalid input: ") \o "JSONDecodeError">>)
    /\ UNCHANGED decoded

\* handle_response
HandleResponse ==
    /\ pc = "handle_response"
    /\ LET r == response[1]
           status == <<StatusLine(r.status_code)>>
       IN  IF ~ok(r.status_code)
           THEN /\ Terminate("HttpStatusError",
                             status \o <<"Error: Request was not successful.">>)
                /\ UNCHANGED decoded
           ELSE IF r.body = NotJson
           THEN OnUndecodable(status)
           ELSE IF Truthy(self.output)
           THEN /\ decoded' = Some(r.body)
                /\ stdout' = stdout \o status
                /\ pc' = "save_response"
                /\ UNCHANGED <<exitCode, err>>
           ELSE /\ Terminate("none", status \o print_body(r.body))
                /\ UNCHANGED decoded
    /\ path' = Append(path, pc')
    /\ UNCHANGED <<argv, self, stderr, netCalls, response, file, file0, writable, opens>>

\* FormatOf falling back to JSON for an extension it does not know
FormatOfDefaultJson(ext) ==
    IF ext = <<".", "c", "s", "v">> THEN "csv" ELSE "json"

\* the format save_response picks for an extension
FormatOf(ext) ==
    IF ext = <<".", "j", "s", "o", "n">> THEN "json"
    ELSE IF ext = <<".", "c", "s", "v">> THEN "csv"
    ELSE "unsupported"

\* save_response
SaveResponse ==
    /\ pc = "save_response"
    /\ LET ext == splitext(self.output[1])
       IN  IF FormatOf(ext) = "unsupported"
           THEN Terminate("UnsupportedFormatError",
                          <<"Error: Unsupported file format '" \o Join(ext) \o "'.">>)
           ELSE /\ pc' = "save_" \o FormatOf(ext)
                /\ UNCHANGED <<exitCode, err, stdout>>
    /\ path' = Append(path, pc')
    /\ UNCHANGED <<argv, self, stderr, netCalls, response, decoded, file, file0,
                   writable, opens>>

Saved == <<"Response successfully saved to " \o Join(self.output[1])>>

\* save_json: open(self.output, "w") raises when the destination cannot be
\* opened; json.dump(data, f, indent=4) writes the text
SaveJson ==
    /\ pc = "save_json"
    /\ opens' = opens + 1
    /\ IF ~writable
       THEN /\ Terminate("FileWriteError", <<"File write error: OSError">>)
            /\ UNCHANGED file
       ELSE /\ file' = [exists |-> TRUE, lines |-> json_dumps(decoded[1], 4),
                        rows |-> <<>>]
            /\ Terminate("none", Saved)
    /\ path' = Append(path, pc')
    /\ UNCHANGED <<argv, self, stderr, netCalls, response, decoded, file0, writable>>

\* save_csv: the file is opened, and so created or truncated, before the
\* first record is looked at; whatever DictWriter wrote before raising stays
SaveCsv ==
    /\ pc = "save_csv"
    /\ opens' = opens + 1
    /\ IF ~writable
       THEN /\ Terminate("FileWriteError", <<"File write error: OSError">>)
            /\ UNCHANGED file
       ELSE LET run == DictWriterRun(AsList(decoded[1]))
            IN  /\ file' = [exists |-> TRUE, lines |-> <<>>, rows |-> run.rows]
                /\ IF run.raised
                   THEN Terminate("FileWriteError", <<"File write error: Exception">>)
                   ELSE Terminate("none", Saved)
    /\ path' = Append(path, pc')
    /\ UNCHANGED <<argv, self, stderr, netCalls, response, decoded, file0, writable>>

Next ==
    \/ Main
    \/ SendRequest
    \/ HandleResponse
    \/ SaveResponse
    \/ SaveJson
    \/ SaveCsv

Spec == Init /\ [][Next]_vars

----------------------------------------------------------------------------
(* Properties.                                                             *)

Exited == pc = "exited"

post == <<"p", "o", "s", "t">>

CsvExt == <<".", "c", "s", "v">>

JsonExt == <<".", "j", "s", "o", "n">>

\* no file was opened and the destination is as the run found it
FileUntouched == opens = 0 /\ file = file0

HttpErrorLine == "Error: Request was not successful."

\* C1 as stated: for every response whose status code is outside 200-299,
\* with or without -o, the run prints the status-code line and an error
\* message and ends with a non-zero exit code, before save_response, any
\* file write and any print of the body.
C1_Non2xxEndsRun ==
    (response # None
        /\ ~(200 <= response[1].status_code /\ response[1].status_code <= 299))
    => /\ FileUntouched
       /\ decoded = None
       /\ pc \in {"handle_response", "exited"}
       /\ Exited => /\ exitCode # 0
                    /\ err # "none"
                    /\ Len(stdout) = 2
                    /\ stdout[1] = StatusLine(response[1].status_code)

\* C1, amended: for every response whose status code is in 400-599 (the
\* codes for which Response.ok is false), with or without -o, the run
\* prints the status-code line and "Error: Request was not successful." and
\* ends with exit code 1, before save_response, any file write and any
\* print of the body.
C1_ErrorStatusEndsRun ==
    (response # None
        /\ 400 <= response[1].status_code /\ response[1].status_code <= 599)
    => /\ FileUntouched
       /\ decoded = None
       /\ pc \in {"handle_response", "exited"}
       /\ Exited => /\ exitCode = 1
                    /\ err = "HttpStatusError"
                    /\ stdout = <<"HTTP Status Code: "
                                      \o ToString(response[1].status_code),
                                  HttpErrorLine>>

\* a 503 with a JSON body and a .json destination has ended the run
C1_Witness ==
    /\ Exited
    /\ response # None
    /\ response[1].status_code = 503
    /\ response[1].body = RecA
    /\ argv.output = Some(<<"o", ".", "j", "s", "o", "n">>)
    /\ writable

\* C2: for every POST invocation in which -d is absent or empty, no network
\* call is made and the run ends with a non-zero exit code after printing
\* an "Invalid input" diagnostic.
C2_PostWithoutDataMakesNoCall ==
    (self.method = post /\ ~Truthy(argv.data))
    => /\ netCalls = <<>>
       /\ response = None
       /\ FileUntouched
       /\ pc \in {"send_request", "exited"}
       /\ Exited => /\ exitCode # 0
                    /\ err = "InvalidInputError"
                    /\ stdout = <<"Invalid input: For POST requests, data is required.">>

\* a POST without -d has ended
C2_Witness ==
    /\ Exited
    /\ self.method = post
    /\ argv.data = None
    /\ exitCode = 1

\* C3: for every POST invocation whose -d text is not valid JSON, parsing
\* fails before the request is issued: no network call, no file write, a
\* non-zero exit code.
C3_InvalidJsonMakesNoCall ==
    (self.method = post /\ Truthy(argv.data) /\ json_loads(argv.data[1]) = None)
    => /\ netCalls = <<>>
       /\ response = None
       /\ FileUntouched
       /\ pc \in {"send_request", "exited"}
       /\ Exited => /\ exitCode # 0
                    /\ err = "InvalidInputError"
                    /\ Len(stdout) = 1

\* a POST with the text "[1" has ended, its destination a .json file
C3_Witness ==
    /\ Exited
    /\ self.method = post
    /\ argv.data = Some(<<"[", "1">>)
    /\ argv.output = Some(<<"o", ".", "j", "s", "o", "n">>)
    /\ exitCode = 1

\* C4: for every successful response with a destination (a non-empty -o
\* path) whose extension is neither .json nor .csv, save_response ends the
\* run with a non-zero exit code and the destination file is neither
\* created nor modified.
C4_UnsupportedExtensionWritesNothing ==
    (decoded # None /\ splitext(argv.output[1]) \notin {JsonExt, CsvExt})
    => /\ FileUntouched
       /\ pc \in {"save_response", "exited"}
       /\ Exited => /\ exitCode # 0
                    /\ err = "UnsupportedFormatError"

\* a response was to be saved to r.txt, which existed, and the run ended
C4_Witness ==
    /\ Exited
    /\ decoded # None
    /\ argv.output = Some(<<"r", ".", "t", "x", "t">>)
    /\ file0 = OldFile
    /\ writable
    /\ exitCode = 1

\* the run printed the response body or saved it
PrintedOrSaved ==
    /\ response # None
    /\ stdout # <<>>
    /\ \/ ~Truthy(argv.output)
          /\ stdout = <<StatusLine(response[1].status_code)>>
                          \o DumpLines(response[1].body, 0, 4, "", "")
       \/ Truthy(argv.output)
          /\ stdout[Len(stdout)] = "Response successfully saved to "
                                       \o Join(argv.output[1])

ErrorKinds ==
    {"UsageError", "InvalidInputError", "NetworkError", "HttpStatusError",
     "UnsupportedFormatError", "FileWriteError"}

\* C5 as stated: every error kind of the taxonomy, UsageError included,
\* ends the run with exit code exactly 1, and a run that prints or saves
\* the response ends with exit code 0.
C5_EveryErrorExitsOne ==
    Exited => /\ err \in ErrorKinds => exitCode = 1
              /\ PrintedOrSaved => exitCode = 0

\* C5, amended: InvalidInputError, NetworkError, HttpStatusError,
\* UnsupportedFormatError and FileWriteError end the run with exit code
\* exactly 1; UsageError (a missing positional or a method outside the
\* choices, rejected by argparse) ends it with exit code 2; a run that
\* prints or saves the response ends with exit code 0.
C5_ExitCodes ==
    Exited => /\ err \in ErrorKinds \ {"UsageError"} => exitCode = 1
              /\ err = "UsageError" => exitCode = 2
              /\ err = "UsageError" <=> \/ argv.method = None
                                        \/ argv.endpoint = None
                                        \/ argv.method[1] \notin choices
              /\ PrintedOrSaved => exitCode = 0
              /\ err = "none" <=> PrintedOrSaved
              /\ err \in ErrorKinds \cup {"none"}

\* a write to a .csv destination failed on an empty list and the run ended
C5_Witness ==
    /\ Exited
    /\ err = "FileWriteError"
    /\ writable
    /\ decoded = Some(List(<<>>))
    /\ exitCode = 1

\* C6: the method token is accepted in any letter case: a token that is get
\* or post after case folding is not rejected with a usage error and is
\* dispatched to the request of its lower-case form.
C6_MethodCaseInsensitive ==
    (Exited /\ argv.method # None /\ argv.endpoint # None
        /\ Lower(argv.method[1]) \in choices)
    => /\ err # "UsageError"
       /\ self.method = Lower(argv.method[1])

\* the rows a .csv destination has for a list of uniform records: the first
\* record's keys, then each record's values under those keys
Uniform(data) ==
    /\ data # <<>>
    /\ \A i \in 1..Len(data) :
           data[i].t = "obj" /\ KeySet(data[i]) = KeySet(data[1])

\* C7: for a .csv destination and a body that is a non-empty list of
\* mappings with the same key set (a non-list body first wrapped into a
\* one-element list), the file written has a header row equal to the first
\* record's keys in their order, then exactly one row per record in
\* encounter order, each field the record's value under the header's key;
\* the run exits 0.  (The destination can be opened: otherwise the run is a
\* FileWriteError.)
C7_CsvRows ==
    (Exited /\ decoded # None /\ splitext(argv.output[1]) = CsvExt
        /\ Uniform(AsList(decoded[1])) /\ writable)
    => LET data == AsList(decoded[1])
           header == [j \in 1..Len(data[1].items) |-> data[1].items[j].k]
       IN  /\ exitCode = 0
           /\ file.exists
           /\ Len(file.rows) = Len(data) + 1
           /\ file.rows[1] = header
           /\ \A i \in 1..Len(data) :
                  /\ Len(file.rows[i + 1]) = Len(header)
                  /\ \A j \in 1..Len(header) :
                         \E m \in 1..Len(data[i].items) :
                             /\ data[i].items[m].k = header[j]
                             /\ file.rows[i + 1][j] = CsvField(data[i].items[m].val)

\* [RecA, RecB], whose keys come in different orders, was saved to o.csv
C7_Witness ==
    /\ Exited
    /\ decoded = Some(List(<<RecA, RecB>>))
    /\ argv.output = Some(<<"o", ".", "c", "s", "v">>)
    /\ file.rows = <<<<"id", "title">>, <<"1", "a">>, <<"2", "">>>>
    /\ exitCode = 0

\* C8: in every run that ends with a non-zero exit code the destination
\* file has not been created, truncated or partially written; a .csv
\* destination with an empty list, a list of non-mappings or a later record
\* with a key the first lacks leaves the file as it was.  (Stated over the
\* runs that received no response or one with status 200.)
C8_FailedRunLeavesFile ==
    (Exited /\ exitCode # 0
        /\ (response # None => response[1].status_code = 200))
    => file = file0

\* C9: for every invocation without -o that receives a success response
\* whose body decodes as JSON, standard output is exactly the line
\* "HTTP Status Code: <code>" followed by the body reserialized with
\* 4-space indentation, no file is opened or written, the run exits 0; the
\* status-code line precedes every other output printed after a response
\* is received.
C9_PrintsStatusThenBody ==
    /\ (response # None /\ stdout # <<>>)
           => stdout[1] = "HTTP Status Code: " \o ToString(response[1].status_code)
    /\ (response # None /\ ~Truthy(argv.output)
            /\ ~(400 <= response[1].status_code /\ response[1].status_code <= 599)
            /\ response[1].body # NotJson)
       => /\ FileUntouched
          /\ pc \in {"handle_response", "exited"}
          /\ Exited =>
                /\ exitCode = 0
                /\ stdout = <<"HTTP Status Code: " \o ToString(response[1].status_code)>>
                                \o DumpLines(response[1].body, 0, 4, "", "")
                /\ response[1].body = RecA =>
                       SubSeq(stdout, 2, Len(stdout))
                           = <<"{", "    \"id\": 1,", "    \"title\": \"a\"", "}">>

\* a GET without -o received 200 and a list and printed it
C9_Witness ==
    /\ Exited
    /\ argv.output = None
    /\ response = Some([status_code |-> 200, body |-> List(<<RecExtra, Num("7")>>)])
    /\ Len(stdout) > 2
    /\ exitCode = 0

\* the place of a function in the pass Resolve, Execute, Classify, Materialize
Rank(p) ==
    CASE p = "main" -> 0
      [] p = "send_request" -> 1
      [] p = "handle_response" -> 2
      [] p = "save_response" -> 3
      [] p \in {"save_json", "save_csv"} -> 4
      [] OTHER -> 5

\* C10: every run is one linear pass that ends: at most one network call
\* and at most one file opened for writing; a file is written only after a
\* response with success status was received and its body decoded; a
\* failure ends the run at once and an ended run takes no further step (no
\* retry, no later call or write); the functions the run goes through come
\* in the order of the pass, none twice; a run that has not ended always
\* has its next step, so that it ends within the five steps of the pass.
C10_SingleLinearPass ==
    /\ Len(netCalls) <= 1
    /\ opens <= 1
    /\ (opens > 0 \/ file # file0)
           => /\ response # None
              /\ ~(400 <= response[1].status_code /\ response[1].status_code <= 599)
              /\ response[1].body # NotJson
              /\ decoded = Some(response[1].body)
              /\ Len(netCalls) = 1
    /\ err # "none" => Exited
    /\ Exited <=> ~ENABLED Next
    /\ path[Len(path)] = pc
    /\ \A i \in 1..Len(path) : \A j \in (i + 1)..Len(path) :
           Rank(path[i]) < Rank(path[j])

\* a run made its one call, opened its one file and ended
C10_Witness ==
    /\ Exited
    /\ Len(netCalls) = 1
    /\ opens = 1
    /\ file # file0
    /\ exitCode = 0
====
